---- MODULE Spec2Model ----
(***************************************************************************)
(* A model of astroplan/target.py: the target classes and get_skycoord,    *)
(* the routine that turns targets and times into one SkyCoord.             *)
(*                                                                         *)
(* One call of get_skycoord is one behaviour: Init draws the arguments,    *)
(* Entry is lines 310-326, each Step* action is one pass of the loop of    *)
(* lines 328-366 for one kind of target, ReturnDirect is lines 368-370 and *)
(* Merge is lines 372-429.                                                 *)
(*                                                                         *)
(* astropy is an external library.  A SkyCoord is a record of its frame    *)
(* (class and frame attributes), its representation class, its shape and   *)
(* its points; angles and distances are small integers.  A Time of size 1  *)
(* is a scalar Time; target values handed in as positions are scalar       *)
(* SkyCoords; sequences are never empty.                                   *)
(***************************************************************************)
EXTENDS Integers, Sequences, FiniteSets, TLC

\* Bounds of the arguments.
MaxT == 3
MaxS == 3
MaxTime == 2

\* targets, times, observer: the arguments (targets is rebound to a list at
\* line 320); target_size, itarget, coords: the locals of those names (itarget
\* counts from 1); calls: the calls of SkyCoord/AltAz and get_body made so far;
\* pc: "entry", "loop", "done" or "error"; result: the returned SkyCoord, if
\* any; err: the exception raised, if any; path: the return statement taken,
\* "direct" for line 370 and "merge" for lines 417-429.
VARIABLES targets, times, observer, target_size, itarget, coords, calls,
          pc, result, err, path

vars == <<targets, times, observer, target_size, itarget, coords, calls,
          pc, result, err, path>>

(***************************************************************************)
(* Python values                                                           *)
(***************************************************************************)
NoneTime == [none |-> TRUE, vals |-> <<>>]
Time(vals) == [none |-> FALSE, vals |-> vals]
Size(t) == Len(t.vals)

NoneObserver == [none |-> TRUE, location |-> "none"]
Observer(location) == [none |-> FALSE, location |-> location]

NoErr == [cls |-> "none", msg |-> "none"]
Raise(cls, msg) == [cls |-> cls, msg |-> msg]

\* Values that are no coordinate objects.
PyInt(n) == [type |-> "int", value |-> n]
PyNone == [type |-> "NoneType"]

\* A str is the sequence of its characters.
LowerChar(c) ==
    CASE c = "A" -> "a" [] c = "B" -> "b" [] c = "C" -> "c" [] c = "D" -> "d"
      [] c = "E" -> "e" [] c = "F" -> "f" [] c = "G" -> "g" [] c = "H" -> "h"
      [] c = "I" -> "i" [] c = "J" -> "j" [] c = "K" -> "k" [] c = "L" -> "l"
      [] c = "M" -> "m" [] c = "N" -> "n" [] c = "O" -> "o" [] c = "P" -> "p"
      [] c = "Q" -> "q" [] c = "R" -> "r" [] c = "S" -> "s" [] c = "T" -> "t"
      [] c = "U" -> "u" [] c = "V" -> "v" [] c = "W" -> "w" [] c = "X" -> "x"
      [] c = "Y" -> "y" [] c = "Z" -> "z" [] OTHER -> c

\* str.lower(), for ASCII strings.
Lower(s) == [i \in 1..Len(s) |-> LowerChar(s[i])]

(***************************************************************************)
(* astropy values                                                          *)
(***************************************************************************)
\* The distance astropy reports for a UnitSphericalRepresentation.
Dimensionless1 == [value |-> 1, unit |-> "dimensionless"]
Kpc(v) == [value |-> v, unit |-> "kpc"]

Frame(cls, obstime, location) ==
    [cls |-> cls, obstime |-> obstime, location |-> location]
ICRS == Frame("icrs", <<>>, "none")
Galactic == Frame("galactic", <<>>, "none")
AltAz(obstime, location) == Frame("altaz", obstime, location)
GCRS(obstime, location) == Frame("gcrs", obstime, location)

Point(lon, lat, distance) == [lon |-> lon, lat |-> lat, distance |-> distance]

SkyCoordValue(frame, rep, shape, pts) ==
    [type |-> "SkyCoord", frame |-> frame, rep |-> rep, shape |-> shape,
     pts |-> pts]

\* hasattr(value, name) for the two methods FixedTarget asks for: a SkyCoord
\* has both, an int or None neither.
HasAttr(value, name) ==
    value.type = "SkyCoord" /\ name \in {"transform_to", "represent_as"}

\* SkyCoord(lon, lat, frame=...): one scalar position without a distance.
ScalarUnit(frame, lon, lat) ==
    SkyCoordValue(frame, "unitspherical", "scalar",
                  <<Point(lon, lat, Dimensionless1)>>)
\* SkyCoord(lon, lat, distance, frame=...): one scalar position.
ScalarDist(frame, lon, lat, d) ==
    SkyCoordValue(frame, "spherical", "scalar", <<Point(lon, lat, d)>>)

IsEquivalentFrame_classOnly(f, g) == f.cls = g.cls
IsEquivalentFrame(f, g) ==
    /\ f.cls = g.cls
    /\ f.obstime = g.obstime
    /\ f.location = g.location

(***************************************************************************)
(* The target classes                                                      *)
(***************************************************************************)
\* FixedTarget.__init__, lines 103-108: the target, or the TypeError raised
\* (its message without the quotes around coord).
FixedTarget(coord, name) ==
    IF ~(HasAttr(coord, "transform_to") /\ HasAttr(coord, "represent_as"))
    THEN Raise("TypeError", "coord must be a coordinate object.")
    ELSE [kind |-> "FixedTarget", name |-> name, coord |-> coord]
ConstantElevationTarget(alt, az_min, az_max, name) ==
    [kind |-> "ConstantElevationTarget", name |-> name,
     alt |-> alt, az_min |-> az_min, az_max |-> az_max]
SolarSystemTarget(eph_name, name) ==
    [kind |-> "SolarSystemTarget", name |-> name, eph_name |-> eph_name]
\* A SkyCoord handed in as a target.
Position(coord) == [kind |-> "SkyCoord", coord |-> coord]

(***************************************************************************)
(* astropy services the routine calls                                      *)
(***************************************************************************)
\* The geocentric position of a body at one time, as seen from a location.
BodyPoint(body, t, location) ==
    Point((IF body = <<"m", "o", "o", "n">> THEN 4 ELSE 1) + t
             + (IF location = "site" THEN 1 ELSE 0),
          t,
          Kpc(IF body = <<"m", "o", "o", "n">> THEN 1 ELSE 2))

\* get_body(body, time, location=location): a GCRS SkyCoord with a distance,
\* of the shape of time.
GetBody(body, time, location) ==
    SkyCoordValue(GCRS(time.vals, location), "spherical",
                  IF Size(time) = 1 THEN "scalar" ELSE "array",
                  [i \in 1..Size(time) |-> BodyPoint(body, time.vals[i], location)])

\* SkyCoord(az_min, alt, frame=AltAz(obstime=time, location=location)) for a
\* scalar time.
AltAzCoord(target, t, location) ==
    ScalarUnit(AltAz(<<t>>, location), target.az_min, target.alt)

\* coordinate.icrs for a scalar coordinate: a rotation keeps the distance, a
\* change of origin (GCRS is geocentric, ICRS barycentric) does not, and a
\* position without a distance stays without one.
ToICRS(c) ==
    LET p == c.pts[1]
        f == c.frame
        t == IF Len(f.obstime) = 0 THEN 0 ELSE f.obstime[1]
        q == CASE f.cls = "icrs" -> p
               [] f.cls = "galactic" ->
                    Point((p.lon + 3) % 8, (p.lat + 1) % 4, p.distance)
               [] f.cls = "altaz" ->
                    Point((p.lon + 2 * t) % 8, (p.lat + t) % 4, p.distance)
               [] f.cls = "gcrs" ->
                    Point((p.lon + 1) % 8, p.lat % 4,
                          IF c.rep = "unitspherical" THEN p.distance
                          ELSE Kpc(p.distance.value + 1))
    IN SkyCoordValue(ICRS, c.rep, c.shape, <<q>>)

\* The longitude and latitude names of a frame's spherical representation.
FrameNames(cls) == CASE cls = "icrs" -> <<"ra", "dec">>
                     [] cls = "gcrs" -> <<"ra", "dec">>
                     [] cls = "galactic" -> <<"l", "b">>
                     [] cls = "altaz" -> <<"az", "alt">>

\* getattr(coordinate, name) for one of the two names of its frame.
GetAttr(c, name) ==
    IF name = FrameNames(c.frame.cls)[1] THEN c.pts[1].lon ELSE c.pts[1].lat

RECURSIVE ConcatPts(_)
ConcatPts(cs) == IF cs = <<>> THEN <<>> ELSE Head(cs).pts \o ConcatPts(Tail(cs))

\* SkyCoord(coords) for a list of SkyCoords: the frames must be equivalent,
\* frame and representation are the first one's, the points are joined.
SkyCoordOfList(cs) ==
    IF \E i \in 2..Len(cs) : ~IsEquivalentFrame(cs[i].frame, cs[1].frame)
    THEN [err |-> Raise("ValueError", "frames"), value |-> <<>>]
    ELSE [err |-> NoErr,
          value |-> <<SkyCoordValue(cs[1].frame, cs[1].rep, "array", ConcatPts(cs))>>]

\* One array SkyCoord as the scalar SkyCoords of its elements.
Elements(c) ==
    [k \in 1..Len(c.pts) |->
        SkyCoordValue(
            Frame(c.frame.cls,
                  IF Len(c.frame.obstime) = Len(c.pts) /\ c.shape = "array"
                  THEN <<c.frame.obstime[k]>> ELSE c.frame.obstime,
                  c.frame.location),
            c.rep, "scalar", <<c.pts[k]>>)]

RECURSIVE SqueezeToList(_)
\* np.array(coords).squeeze().tolist(): the scalar SkyCoords, in order.
SqueezeToList(cs) ==
    IF cs = <<>> THEN <<>> ELSE Elements(Head(cs)) \o SqueezeToList(Tail(cs))

(***************************************************************************)
(* get_skycoord, lines 310-324: the sizes                                  *)
(***************************************************************************)
\* targets.size, else len(targets), else 1.
TargetSize(tg) ==
    IF tg.isList THEN Len(tg.items)
    ELSE IF tg.items[1].kind = "SkyCoord" THEN Len(tg.items[1].coord.pts)
    ELSE 1

\* if not isinstance(targets, list): targets = [targets]
AsList(tg) == [isList |-> TRUE, items |-> tg.items]

BroadcastMismatch_shorterTimes(tsize, tm) ==
    ~tm.none /\ tsize # 1 /\ Size(tm) # 1 /\ tsize > Size(tm)
\* The test of lines 322-323.
BroadcastMismatch(tsize, tm) ==
    ~tm.none /\ tsize # 1 /\ Size(tm) # 1 /\ tsize # Size(tm)

(***************************************************************************)
(* get_skycoord, lines 328-366: one pass of the loop                       *)
(***************************************************************************)
\* What a step gives: an error, or the coordinates to append and the number
\* of calls of astropy's frame and ephemeris services it made.
Raised(e) == [err |-> e, new |-> <<>>, ncalls |-> 0]
Appended(cs, n) == [err |-> NoErr, new |-> cs, ncalls |-> n]

\* times[i]: a scalar Time, or IndexError.
TimeItem(tm, i) ==
    IF i \in 1..Size(tm)
    THEN [err |-> NoErr, time |-> Time(<<tm.vals[i]>>)]
    ELSE [err |-> Raise("IndexError", "times[itarget]"), time |-> NoneTime]

TimeFor_firstTime(tm, tsize, i) ==
    IF tm.none THEN [err |-> NoErr, time |-> NoneTime]
    ELSE IF Size(tm) = 1 \/ tsize = 1 THEN [err |-> NoErr, time |-> tm]
    ELSE TimeItem(tm, 1)
TimeFor_noScalarTime(tm, tsize, i) ==
    IF tm.none THEN [err |-> NoErr, time |-> NoneTime]
    ELSE IF tsize = 1 THEN [err |-> NoErr, time |-> tm]
    ELSE TimeItem(tm, i)
\* Lines 329-334: the time paired with target i (counted from 1).
TimeFor(tm, tsize, i) ==
    IF tm.none THEN [err |-> NoErr, time |-> NoneTime]
    ELSE IF Size(tm) = 1 \/ tsize = 1 THEN [err |-> NoErr, time |-> tm]
    ELSE TimeItem(tm, i)

\* Lines 336-342.
EvalFixed(target, tsize, tm) ==
    IF tsize = 1
    THEN IF tm.none
         THEN Raised(Raise("AttributeError", "NoneType.size"))
         ELSE Appended([i \in 1..Size(tm) |-> target.coord], 0)
    ELSE Appended(<<target.coord>>, 0)

\* Lines 344-358.
EvalCET(target, time, tm, obs) ==
    IF time.none THEN Raised(Raise("ValueError", "times should be given: ConstantElevationTarget"))
    ELSE IF obs.none THEN Raised(Raise("AttributeError", "NoneType.location"))
    ELSE IF Size(time) = 1
    THEN Appended(<<AltAzCoord(target, time.vals[1], obs.location)>>, 1)
    ELSE Appended([i \in 1..Size(tm) |->
                      AltAzCoord(target, time.vals[i], obs.location)], Size(tm))

EvalSST_observerFirst(target, time, obs) ==
    IF obs.none THEN Raised(Raise("AttributeError", "NoneType.location"))
    ELSE IF time.none THEN Raised(Raise("ValueError", "times should be given: SolarSystemTarget"))
    ELSE Appended(<<GetBody(Lower(target.eph_name), time, obs.location)>>, 1)
\* Lines 359-363.
EvalSST(target, time, obs) ==
    IF time.none THEN Raised(Raise("ValueError", "times should be given: SolarSystemTarget"))
    ELSE IF obs.none THEN Raised(Raise("AttributeError", "NoneType.location"))
    ELSE Appended(<<GetBody(Lower(target.eph_name), time, obs.location)>>, 1)

\* Lines 364-366.
EvalOther(target) == Appended(<<target.coord>>, 0)

(***************************************************************************)
(* get_skycoord, lines 368-429: the return                                 *)
(***************************************************************************)
FastPath_anyScalarTime(tsize, first, tm) ==
    \/ tsize = 1 /\ first.kind # "ConstantElevationTarget"
    \/ ~tm.none /\ Size(tm) = 1
\* Lines 368-369.  times is not None whenever the second test is reached: a
\* ConstantElevationTarget without times has raised in the loop.
FastPath(tsize, first, tm) ==
    /\ tsize = 1
    /\ \/ first.kind # "ConstantElevationTarget"
       \/ ~tm.none /\ Size(tm) = 1

\* Lines 375-376.
ConvertToIcrs(cs) ==
    ~ \A i \in 2..Len(cs) : IsEquivalentFrame(cs[i].frame, cs[1].frame)

\* Lines 380-381.
IsUnitSphericalRep(c) == c.rep = "unitspherical"

\* distance != 1 on an astropy Quantity: a distance with a unit never equals 1.
NotOne(d) == ~(d.unit = "dimensionless" /\ d.value = 1)

SentinelDistance == 100

WithSentinel_all(distances) ==
    [i \in 1..Len(distances) |-> Kpc(SentinelDistance)]
\* Line 428.
WithSentinel(distances) ==
    [i \in 1..Len(distances) |->
        IF NotOne(distances[i]) THEN distances[i] ELSE Kpc(SentinelDistance)]

\* SkyCoord(longitudes, latitudes, frame=frame)
SkyCoordLonLat(lons, lats, frame) ==
    SkyCoordValue(frame, "unitspherical", "array",
                  [i \in 1..Len(lons) |-> Point(lons[i], lats[i], Dimensionless1)])

\* SkyCoord(longitudes, latitudes, distances, frame=frame)
SkyCoordLonLatDist(lons, lats, dists, frame) ==
    SkyCoordValue(frame, "spherical", "array",
                  [i \in 1..Len(lons) |-> Point(lons[i], lats[i], dists[i])])

\* Lines 374-429, for the list of scalar SkyCoords of line 372.
MergeCoords(cs) ==
    LET n == Len(cs)
        convert_to_icrs == ConvertToIcrs(cs)
        all_unit == \A i \in 1..n : IsUnitSphericalRep(cs[i])
        any_unit == \E i \in 1..n : IsUnitSphericalRep(cs[i])
        names == FrameNames(cs[1].frame.cls)
        longitudes == [i \in 1..n |->
            IF convert_to_icrs THEN ToICRS(cs[i]).pts[1].lon
            ELSE GetAttr(cs[i], names[1])]
        latitudes == [i \in 1..n |->
            IF convert_to_icrs THEN ToICRS(cs[i]).pts[1].lat
            ELSE GetAttr(cs[i], names[2])]
        distances == [i \in 1..n |->
            IF convert_to_icrs THEN ToICRS(cs[i]).pts[1].distance
            ELSE cs[i].pts[1].distance]
        frame == IF convert_to_icrs THEN ICRS ELSE cs[1].frame
    IN IF all_unit THEN SkyCoordLonLat(longitudes, latitudes, frame)
       ELSE IF ~any_unit
       THEN SkyCoordLonLatDist(longitudes, latitudes, distances, frame)
       ELSE SkyCoordLonLatDist(longitudes, latitudes, WithSentinel(distances), frame)

(***************************************************************************)
(* The arguments of a call                                                 *)
(***************************************************************************)
SeqsUpTo(S, n) == UNION {[1..k -> S] : k \in 1..n}

\* The coord and name a caller makes a FixedTarget of.
FixedTargetArgs ==
    { <<ScalarUnit(ICRS, 1, 2), "star">>,
      <<ScalarDist(Galactic, 2, 1, Kpc(3)), "cluster">>,
      <<PyInt(5), "x">>,
      <<PyNone, "nothing">> }

\* The targets a caller has: a FixedTarget whose constructor raised is none.
TargetValues ==
    { v \in {FixedTarget(a[1], a[2]) : a \in FixedTargetArgs} :
        "kind" \in DOMAIN v }
    \cup
    { ConstantElevationTarget(1, 3, 5, "scan"),
      SolarSystemTarget(<<"M", "o", "o", "n">>, "the moon"),
      Position(ScalarDist(ICRS, 5, 3, Kpc(2))),
      Position(ScalarUnit(Galactic, 4, 0)) }

TargetArgs ==
    {[isList |-> FALSE, items |-> <<t>>] : t \in TargetValues}
    \cup {[isList |-> TRUE, items |-> s] : s \in SeqsUpTo(TargetValues, MaxT)}

TimeArgs == {NoneTime} \cup {Time(s) : s \in SeqsUpTo(1..MaxTime, MaxS)}

ObserverArgs == {NoneObserver, Observer("site")}

(***************************************************************************)
(* The call, step by step                                                  *)
(***************************************************************************)
Init ==
    /\ targets \in TargetArgs
    /\ times \in TimeArgs
    /\ observer \in ObserverArgs
    /\ target_size = 0
    /\ itarget = 0
    /\ coords = <<>>
    /\ calls = 0
    /\ pc = "entry"
    /\ result = <<>>
    /\ err = NoErr
    /\ path = "none"

\* Lines 310-326.
Entry ==
    /\ pc = "entry"
    /\ target_size' = TargetSize(targets)
    /\ targets' = AsList(targets)
    /\ IF BroadcastMismatch(TargetSize(targets), times)
       THEN /\ pc' = "error"
            /\ err' = Raise("ValueError", "Either targets or times should be scalor")
            /\ itarget' = itarget
       ELSE /\ pc' = "loop"
            /\ err' = err
            /\ itarget' = 1
    /\ coords' = <<>>
    /\ UNCHANGED <<times, observer, calls, result, path>>

\* The end of one pass of the loop with outcome r.
Pass(r) ==
    /\ IF r.err # NoErr
       THEN /\ pc' = "error"
            /\ err' = r.err
            /\ UNCHANGED <<coords, calls, itarget>>
       ELSE /\ coords' = coords \o r.new
            /\ calls' = calls + r.ncalls
            /\ itarget' = itarget + 1
            /\ UNCHANGED <<pc, err>>
    /\ UNCHANGED <<targets, times, observer, target_size, result, path>>

InLoop(kind) ==
    /\ pc = "loop"
    /\ itarget <= Len(targets.items)
    /\ targets.items[itarget].kind = kind

\* The outcome of evaluating target with the time of lines 329-334.
WithTime(tf, r) == IF tf.err # NoErr THEN Raised(tf.err) ELSE r

StepFixed ==
    /\ InLoop("FixedTarget")
    /\ LET tf == TimeFor(times, target_size, itarget)
       IN Pass(WithTime(tf, EvalFixed(targets.items[itarget], target_size, times)))

StepCET ==
    /\ InLoop("ConstantElevationTarget")
    /\ LET tf == TimeFor(times, target_size, itarget)
       IN Pass(WithTime(tf, EvalCET(targets.items[itarget], tf.time, times, observer)))

StepSST ==
    /\ InLoop("SolarSystemTarget")
    /\ LET tf == TimeFor(times, target_size, itarget)
       IN Pass(WithTime(tf, EvalSST(targets.items[itarget], tf.time, observer)))

StepOther ==
    /\ InLoop("SkyCoord")
    /\ LET tf == TimeFor(times, target_size, itarget)
       IN Pass(WithTime(tf, EvalOther(targets.items[itarget])))

\* Lines 368-370.
ReturnDirect ==
    /\ pc = "loop"
    /\ itarget > Len(targets.items)
    /\ FastPath(target_size, targets.items[1], times)
    /\ LET r == SkyCoordOfList(coords)
       IN IF r.err # NoErr
          THEN pc' = "error" /\ err' = r.err /\ UNCHANGED result
          ELSE pc' = "done" /\ result' = r.value /\ UNCHANGED err
    /\ path' = "direct"
    /\ UNCHANGED <<targets, times, observer, target_size, itarget, coords, calls>>

\* Lines 372-429.
Merge ==
    /\ pc = "loop"
    /\ itarget > Len(targets.items)
    /\ ~FastPath(target_size, targets.items[1], times)
    /\ coords' = SqueezeToList(coords)
    /\ result' = <<MergeCoords(SqueezeToList(coords))>>
    /\ pc' = "done"
    /\ path' = "merge"
    /\ UNCHANGED <<targets, times, observer, target_size, itarget, calls, err>>

Next == Entry \/ StepFixed \/ StepCET \/ StepSST \/ StepOther \/ ReturnDirect \/ Merge

Spec == Init /\ [][Next]_vars

(***************************************************************************)
(* Vocabulary of the properties                                            *)
(***************************************************************************)
T == Len(targets.items)
S == Size(times)
Terminated == pc \in {"done", "error"}
Returned == pc = "done" /\ Len(result) = 1

OnDemand(t) == t.kind \in {"ConstantElevationTarget", "SolarSystemTarget"}
HasOnDemand == \E i \in 1..T : OnDemand(targets.items[i])
\* The observer is there whenever a target needs one.
ObserverGiven == ~observer.none \/ ~HasOnDemand

MissingInput(e) ==
    /\ e.cls = "ValueError"
    /\ e.msg \in {"times should be given: ConstantElevationTarget",
                  "times should be given: SolarSystemTarget"}

\* c is the position of target t at the scalar time tv (a sequence of one
\* time; not read for a target with a stored position).
PositionOf(c, t, tv) ==
    CASE t.kind \in {"FixedTarget", "SkyCoord"} -> c = t.coord
      [] t.kind = "ConstantElevationTarget" ->
            /\ c.frame = AltAz(tv, observer.location)
            /\ c.pts = <<Point(t.az_min, t.alt, Dimensionless1)>>
      [] t.kind = "SolarSystemTarget" ->
            /\ c.frame = GCRS(tv, observer.location)
            /\ c.pts = <<BodyPoint(Lower(t.eph_name), tv[1], observer.location)>>

\* Point p of the result r shows the direction of the scalar position c.
DirectionOf(r, p, c) ==
    IF r.frame = c.frame
    THEN p.lon = c.pts[1].lon /\ p.lat = c.pts[1].lat
    ELSE /\ r.frame = ICRS
         /\ p.lon = ToICRS(c).pts[1].lon
         /\ p.lat = ToICRS(c).pts[1].lat

\* The result has one point per target, in the order of the list, and
\* target i was evaluated at the time tvs[i].
OnePerTarget(tvs) ==
    /\ Returned
    /\ Len(coords) = T
    /\ Len(result[1].pts) = T
    /\ \A i \in 1..T :
          /\ PositionOf(coords[i], targets.items[i], tvs[i])
          /\ DirectionOf(result[1], result[1].pts[i], coords[i])

(***************************************************************************)
(* C1                                                                      *)
(***************************************************************************)
\* C1: a call with a single FixedTarget (bare or in a list of one) and no
\* times ends with a result, and the result is the target's stored coord:
\* same frame, same representation, same point.
C1_SingleFixedNoTimes ==
    (T = 1 /\ targets.items[1].kind = "FixedTarget" /\ times.none /\ Terminated)
    => /\ Returned
       /\ result[1].frame = targets.items[1].coord.frame
       /\ result[1].rep = targets.items[1].coord.rep
       /\ result[1].pts = targets.items[1].coord.pts

(***************************************************************************)
(* C2                                                                      *)
(***************************************************************************)
\* C2: with one target of any kind and N > 1 times (and an observer where one
\* is needed) the call returns N points.
C2_OneTargetManyTimes ==
    (T = 1 /\ ~times.none /\ S > 1 /\ ObserverGiven /\ Terminated)
    => Returned /\ Len(result[1].pts) = S

(***************************************************************************)
(* C3                                                                      *)
(***************************************************************************)
\* C3: with N > 1 targets and N times (and an observer where one is needed)
\* the call returns N points, point i being target i at time i.
C3_Elementwise ==
    (T > 1 /\ ~times.none /\ S = T /\ ObserverGiven /\ Terminated)
    => OnePerTarget([i \in 1..T |-> <<times.vals[i]>>])

\* Three targets, two of them evaluated on demand, at times that differ.
C3_Witness ==
    /\ Returned /\ T = 3 /\ ~times.none /\ S = 3
    /\ times.vals[2] # times.vals[3]
    /\ targets.items[1].kind = "FixedTarget"
    /\ targets.items[2].kind = "ConstantElevationTarget"
    /\ targets.items[3].kind = "SolarSystemTarget"

(***************************************************************************)
(* C4                                                                      *)
(***************************************************************************)
\* C4: with N > 1 targets and one time, or no times and only targets with a
\* stored position, (and an observer where one is needed) the call returns N
\* points, point i being target i at that one time.
C4_ManyTargetsOneTime ==
    (/\ T > 1
     /\ \/ ~times.none /\ S = 1
        \/ times.none /\ ~HasOnDemand
     /\ ObserverGiven
     /\ Terminated)
    => OnePerTarget([i \in 1..T |-> times.vals])

C4_Witness ==
    /\ Returned /\ T = 3 /\ ~times.none /\ S = 1
    /\ targets.items[1].kind = "SolarSystemTarget"
    /\ targets.items[2].kind = "FixedTarget"
    /\ targets.items[3].kind = "ConstantElevationTarget"
    /\ coords[1].frame.obstime = times.vals
    /\ coords[3].frame.obstime = times.vals

(***************************************************************************)
(* C5                                                                      *)
(***************************************************************************)
\* C5: when the sizes of targets and times differ and neither is 1, the call
\* never gets past its size test: it evaluates no target, calls no service,
\* returns nothing, and ends in the broadcast ValueError.
C5_BroadcastMismatch ==
    (~times.none /\ T # 1 /\ S # 1 /\ T # S)
    => /\ pc \in {"entry", "error"}
       /\ coords = <<>>
       /\ calls = 0
       /\ result = <<>>
       /\ pc = "error" =>
            err = Raise("ValueError", "Either targets or times should be scalor")

C5_Witness ==
    /\ pc = "error" /\ T = 3 /\ ~times.none /\ S = 2
    /\ err.cls = "ValueError"
    /\ \E i \in 1..T : OnDemand(targets.items[i])

(***************************************************************************)
(* C6                                                                      *)
(***************************************************************************)
\* C6: without times, a call whose targets include one evaluated on demand
\* never returns a result: the loop does not get past the first such target,
\* and the call ends in the ValueError that asks for times.
C6_NoTimesOnDemand ==
    (times.none /\ HasOnDemand)
    => /\ pc # "done"
       /\ result = <<>>
       /\ pc = "loop" =>
            \E i \in 1..T : i >= itarget /\ OnDemand(targets.items[i])
       /\ pc = "error" => MissingInput(err)

\* The error comes after two targets have been evaluated.
C6_Witness ==
    /\ pc = "error" /\ times.none /\ T = 3
    /\ OnDemand(targets.items[3])
    /\ Len(coords) = 2
    /\ result = <<>>
    /\ MissingInput(err)

(***************************************************************************)
(* C7                                                                      *)
(***************************************************************************)
\* C7: with times of matching size but no observer, a call whose targets
\* include one evaluated on demand ends in the same error as a call without
\* times.
C7_NoObserver ==
    (/\ observer.none /\ ~times.none /\ HasOnDemand
     /\ ~BroadcastMismatch(T, times)
     /\ Terminated)
    => pc = "error" /\ MissingInput(err)

(***************************************************************************)
(* C8                                                                      *)
(***************************************************************************)
Merged == Returned /\ path = "merge"
FramesDiffer == \E i \in 2..Len(coords) : coords[i].frame # coords[1].frame

\* C8: a result of the merge has one point per evaluated position, in their
\* order; if some position's frame differs from the first one's, the result
\* is in ICRS and every point is the ICRS direction of its position, and
\* otherwise the result is in the first position's frame and every point is
\* the direction of its position as it stands.
C8_FrameOfMerge ==
    Merged =>
       /\ Len(result[1].pts) = Len(coords)
       /\ result[1].frame = IF FramesDiffer THEN ICRS ELSE coords[1].frame
       /\ \A i \in 1..Len(coords) :
            LET c == IF FramesDiffer THEN ToICRS(coords[i]) ELSE coords[i]
            IN /\ result[1].pts[i].lon = c.pts[1].lon
               /\ result[1].pts[i].lat = c.pts[1].lat

\* Two positions in different frames, one of them not in ICRS, give two
\* points in ICRS.
C8_Witness ==
    /\ Merged /\ Len(coords) = 2
    /\ coords[1].frame.cls = "galactic" /\ coords[2].frame.cls = "altaz"
    /\ result[1].frame = ICRS /\ Len(result[1].pts) = 2
    /\ result[1].pts[1].lon # coords[1].pts[1].lon

(***************************************************************************)
(* C9                                                                      *)
(***************************************************************************)
HasDistance(c) == c.rep # "unitspherical"
NoneHasDistance == \A i \in 1..Len(coords) : ~HasDistance(coords[i])
Sentinel == Kpc(100)

\* C9 as claimed: in a result of the merge, no point has a distance when no
\* position has one, and otherwise a position with a distance keeps its own
\* distance and one without gets the sentinel.
C9_OwnDistanceKept ==
    Merged =>
       IF NoneHasDistance THEN result[1].rep = "unitspherical"
       ELSE /\ result[1].rep = "spherical"
            /\ \A i \in 1..Len(coords) :
                 result[1].pts[i].distance =
                    IF HasDistance(coords[i]) THEN coords[i].pts[1].distance
                    ELSE Sentinel

\* C9 as amended: in a result of the merge, no point has a distance when no
\* position has one; otherwise a position without a distance gets the
\* sentinel, and a position with a distance gets its distance in the frame of
\* the result: its own when the frames are equivalent, that of its ICRS
\* conversion when the positions were converted.
C9_DistanceOfMerge ==
    Merged =>
       IF NoneHasDistance
       THEN /\ result[1].rep = "unitspherical"
            /\ \A i \in 1..Len(coords) : result[1].pts[i].distance = Dimensionless1
       ELSE /\ result[1].rep = "spherical"
            /\ \A i \in 1..Len(coords) :
                 result[1].pts[i].distance =
                    IF ~HasDistance(coords[i]) THEN Sentinel
                    ELSE IF FramesDiffer THEN ToICRS(coords[i]).pts[1].distance
                    ELSE coords[i].pts[1].distance

\* A geocentric position with a distance and one without, converted to ICRS.
C9_Witness ==
    /\ Merged /\ Len(coords) = 2 /\ FramesDiffer
    /\ coords[1].frame.cls = "gcrs" /\ HasDistance(coords[1])
    /\ ~HasDistance(coords[2])
    /\ result[1].pts[2].distance = Sentinel
    /\ result[1].pts[1].distance # coords[1].pts[1].distance

(***************************************************************************)
(* C10                                                                     *)
(***************************************************************************)
SingleNotCET == T = 1 /\ targets.items[1].kind # "ConstantElevationTarget"
OneTime == ~times.none /\ S = 1

\* C10 as claimed: a result is returned directly, without the merge, exactly
\* if there is a single target that is no ConstantElevationTarget or times
\* has size 1.
C10_DirectIfOneTime ==
    Returned => (path = "direct" <=> (SingleNotCET \/ OneTime))

\* C10 as amended: a result is returned directly, without the merge, exactly
\* if there is a single target and it is no ConstantElevationTarget or times
\* has size 1; the result for several targets always comes from the merge.
C10_DirectOnlyForOneTarget ==
    Returned =>
       /\ path \in {"direct", "merge"}
       /\ path = "direct" <=> (T = 1 /\ (SingleNotCET \/ OneTime))

\* Several targets and one time: the merge.
C10_Witness ==
    /\ Returned /\ T = 3 /\ OneTime /\ path = "merge"

====
